---- MODULE Spec2Model ----
(***************************************************************************)
(* Model of the Streamlit pipeline runner of the B2B enrichment app:       *)
(* the step records of streamlit_app/core/state_manager.py and the         *)
(* orchestration of streamlit_app/core/pipeline_runner.py (full run,       *)
(* single-step run, CSV load, stop request, reset).                        *)
(***************************************************************************)
EXTENDS Integers, Sequences, FiniteSets, TLC

\* ------------------------------------------------------------------ bounds
MaxCompanies == 1     \* companies a provider or a CSV file returns
MaxDirigeants == 1    \* leadership records per company
MaxPersonas == 1      \* decision makers the filter keeps per company
MaxOps == 1           \* single-step runs and CSV loads between two resets
LeadCompanies == 3    \* companies of a run that takes the decision makers from Pappers
LeadDirigeants == 2   \* leadership records per company in such a run
max_calls == 1        \* RateLimiter.max_calls of the limiter under study
period == 2           \* RateLimiter.period of the limiter under study, in ticks
MaxWaits == 3         \* wait_if_needed calls each caller makes
MaxClock == 3         \* ticks the clock is followed for
MaxTimeout == 3       \* largest timeout a poll loop is given, in ticks
MaxInterval == 2      \* largest poll_interval a poll loop is given, in ticks
MaxContacts == 2      \* decision makers handed to enrich_contacts_with_captely
MaxResults == 2       \* result records a bulk job returns
MaxEntities == 4      \* companies handed to extract_employees_batch

\* ------------------------------------------------------------------ values
PENDING == "pending"
RUNNING == "running"
COMPLETED == "completed"
FAILED == "failed"
SKIPPED == "skipped"

StepStatus == {PENDING, RUNNING, COMPLETED, FAILED, SKIPPED}
Terminal == {COMPLETED, FAILED, SKIPPED}

None == "None"                              \* Python's None
TS == "timestamp"                           \* datetime.now().isoformat()
UserStopMsg == "Arrete par l'utilisateur"   \* run_step_with_capture's stop reason
ExcText == "str(e)"                         \* text of an exception a stage raised
Path == "filepath"                          \* path an export stage returns

Steps == 1..7

VARIABLES
    steps,                  \* st.session_state.steps: one record per step
    is_running, current_step, stop_requested,
    pipeline_started_at, pipeline_completed_at,
    companies, company_employees, decision_makers, enriched_contacts,
    companies_csv_path, contacts_csv_path,
    skip_phantombuster,     \* the sidebar's checkbox, read when a full run starts
    pc,                     \* position of the script: idle, reset, begin, running, boundary, leaders
    mode,                   \* operation in progress or last finished: none, full, single, csv
    cur,                    \* the step the operation is at (where it ended, once idle)
    outcome,                \* what the last execute_step_k produced
    ret,                    \* return value of the last operation
    ops,                    \* single-step runs and CSV loads since the last reset
    stop_observed,          \* history: a check_stop_requested() of this operation returned True
    clock,                  \* time.time(), in ticks
    calls,                  \* RateLimiter.calls, the deque of timestamps
    recorded,               \* history: every timestamp wait_if_needed appended
    caller,                 \* the threads calling wait_if_needed: position and locals
    job,                    \* an asynchronous provider job: submission, poll loop, fetch
    enr,                    \* a call of enrich_contacts_with_captely: position and locals
    mat,                    \* the mapping of bulk results onto the decision makers
    batch,                  \* a call of extract_employees_batch: position and locals
    rst,                    \* a reset_pipeline_state followed assignment by assignment
    nine,                   \* a call of run_pipeline_with_logs (src/app.py): position and records
    agent                   \* the Phantombuster agent across launches, and the client waiting on it

sess == <<is_running, current_step, stop_requested, pipeline_started_at, pipeline_completed_at>>
data == <<companies, company_employees, decision_makers, enriched_contacts,
          companies_csv_path, contacts_csv_path>>
ctl == <<skip_phantombuster, pc, mode, cur, outcome, ret, ops>>
hist == <<stop_observed>>
pipe == <<steps, sess, data, ctl, hist>>
limiter == <<clock, calls, recorded, caller>>
more == <<rst, nine, agent>>
svc == <<limiter, job, enr, mat, batch, more>>
vars == <<pipe, svc>>

\* ------------------------------------------------------------------ state_manager
InitialStep ==
    [status |-> PENDING, started_at |-> None, completed_at |-> None,
     result_count |-> 0, error_message |-> None, logs |-> <<>>]

create_initial_steps == [i \in Steps |-> InitialStep]

\* update_step_state(step, **kwargs): kw is a record of the keyword arguments
update_step_state(s, step, kw) ==
    LET base == IF step \in DOMAIN s THEN s[step] ELSE InitialStep
        new == [f \in DOMAIN base |-> IF f \in DOMAIN kw THEN kw[f] ELSE base[f]]
    IN  [i \in (DOMAIN s) \cup {step} |-> IF i = step THEN new ELSE s[i]]

add_step_log(s, step, message) ==
    IF step \in DOMAIN s
    THEN [s EXCEPT ![step].logs = Append(@, message)]
    ELSE s

\* ------------------------------------------------------------------ entities
Company == [dirigeants : 0..MaxDirigeants, linkedin : BOOLEAN]

SeqsUpTo(S, n) == UNION {[1..m -> S] : m \in 0..n}

\* what get_target_companies returns: at most nc companies of at most nd leadership
\* records each, no linkedin_url yet
PappersCompanies(nc, nd) == SeqsUpTo([dirigeants : 0..nd, linkedin : {FALSE}], nc)
PappersResults == PappersCompanies(MaxCompanies, MaxDirigeants)

\* what read_companies_csv returns ([] when the file does not exist): rows of
\* strings, whose "dirigeants" column is text and holds no leadership record
CsvResults == SeqsUpTo([dirigeants : {0}, linkedin : BOOLEAN], MaxCompanies)

\* enrich_companies_with_linkedin: one output per input, linkedin_url set or None;
\* the company dicts are updated in place, the first n of them when it stops early
WithLinkedin(cs, n) ==
    {[i \in 1..Len(cs) |-> IF i <= n THEN [cs[i] EXCEPT !.linkedin = f[i]] ELSE cs[i]] :
        f \in [1..Len(cs) -> BOOLEAN]}

\* extract_employees_batch: one entry per company with a LinkedIn URL, keyed by siren
\* (here the company's position), holding whether its employees list is non-empty;
\* run_step_4_phantombuster returns {} without agent id
EmptyDict == [s \in {} |-> FALSE]
LinkedinSirens(cs) == {i \in 1..Len(cs) : cs[i].linkedin}
PhantombusterResults(cs) == {EmptyDict} \cup [LinkedinSirens(cs) -> BOOLEAN]

Person(s, j) == [siren |-> s, idx |-> j, email |-> FALSE]

\* variant of Leaders that keeps the first leadership record of each company only
RECURSIVE Leaders_FirstOnly(_, _)
Leaders_FirstOnly(cs, i) ==
    IF i > Len(cs) THEN <<>>
    ELSE [j \in 1..(IF cs[i].dirigeants > 0 THEN 1 ELSE 0) |-> Person(i, j)]
         \o Leaders_FirstOnly(cs, i + 1)

\* the nested loop of use_pappers_leaders, from company i on
RECURSIVE Leaders(_, _)
Leaders(cs, i) ==
    IF i > Len(cs) THEN <<>>
    ELSE [j \in 1..cs[i].dirigeants |-> Person(i, j)] \o Leaders(cs, i + 1)

\* run_step_5_filter_decision_makers: kept[s] decision makers for each company
\* of the dict, none for a company without employees
RECURSIVE Filtered(_, _, _)
Filtered(ce, kept, s) ==
    IF s > MaxCompanies THEN <<>>
    ELSE (IF s \in DOMAIN ce /\ ce[s]
          THEN [j \in 1..kept[s] |-> Person(s, j)]
          ELSE <<>>) \o Filtered(ce, kept, s + 1)

FilterResults(ce) ==
    {Filtered(ce, kept, 1) : kept \in [DOMAIN ce -> 0..MaxPersonas]}

\* enrich_contacts_with_captely: the same list, updated in place, email found or not
CaptelyResults(dms) ==
    {[i \in 1..Len(dms) |-> [dms[i] EXCEPT !.email = f[i]]] : f \in [1..Len(dms) -> BOOLEAN]}

\* len([c for c in enriched if c.get("linkedin_url")]) and the same for "email"
WithLinkedinCount(cs) == Cardinality({i \in 1..Len(cs) : cs[i].linkedin})
WithEmailCount(cs) == Cardinality({i \in 1..Len(cs) : cs[i].email})

\* ------------------------------------------------------------------ initial state
\* initialize_session_state
PipelineInit ==
    /\ steps = create_initial_steps
    /\ is_running = FALSE
    /\ current_step = 0
    /\ stop_requested = FALSE
    /\ pipeline_started_at = None
    /\ pipeline_completed_at = None
    /\ companies = <<>>
    /\ company_employees = EmptyDict
    /\ decision_makers = <<>>
    /\ enriched_contacts = <<>>
    /\ companies_csv_path = None
    /\ contacts_csv_path = None
    /\ skip_phantombuster = FALSE
    /\ pc = "idle"
    /\ mode = "none"
    /\ cur = 0
    /\ outcome = None
    /\ ret = None
    /\ ops = 0
    /\ stop_observed = FALSE

\* no service call in progress: nothing of the services' state exists yet
Unused == "unused"
LimiterIdle == clock = 0 /\ calls = <<>> /\ recorded = <<>> /\ caller = <<>>
JobIdle == job = [pc |-> Unused]
EnrichIdle == enr = [pc |-> Unused]
MatchingIdle == mat = [pc |-> Unused]
BatchIdle == batch = [pc |-> Unused]
MoreIdle == rst = [pc |-> Unused] /\ nine = [pc |-> Unused] /\ agent = [pc |-> Unused]

Init ==
    PipelineInit /\ LimiterIdle /\ JobIdle /\ EnrichIdle /\ MatchingIdle /\ BatchIdle /\ MoreIdle

\* ------------------------------------------------------------------ pipeline_runner
\* the data execute_step_k requires (its "if not ...: raise ValueError")
Upstream(k) ==
    CASE k = 1 -> TRUE
      [] k \in {2, 3, 4} -> companies # <<>>
      [] k = 5 -> DOMAIN company_employees # {}
      [] k = 6 -> decision_makers # <<>>
      [] k = 7 -> enriched_contacts # <<>>

\* return v from run_full_pipeline / run_single_step, through "finally"
Return(v) ==
    /\ ret' = v
    /\ is_running' = FALSE
    /\ pc' = "idle"

\* variant of AfterExecute in which run_full_pipeline does not test the result
AfterExecute_NoEmptyCheck(k, t) ==
    /\ outcome' = t
    /\ IF mode = "single"
       THEN Return(IF t = None THEN "False" ELSE "True") /\ UNCHANGED pipeline_completed_at
       ELSE IF k = 7
       THEN pipeline_completed_at' = TS /\ Return("True")
       ELSE pc' = "boundary" /\ UNCHANGED <<is_running, ret, pipeline_completed_at>>

\* what follows the return of execute_step_k with a result of truthiness t:
\* run_single_step returns "result is not None"; run_full_pipeline returns False on
\* a falsy result of steps 1, 2, 4, 5, 6 without reading the stop flag, ends with
\* True after step 7, and otherwise goes on to read the stop flag
AfterExecute(k, t) ==
    /\ outcome' = t
    /\ IF mode = "single"
       THEN Return(IF t = None THEN "False" ELSE "True") /\ UNCHANGED pipeline_completed_at
       ELSE IF k = 7
       THEN pipeline_completed_at' = TS /\ Return("True")
       ELSE IF k # 3 /\ t # "nonempty"
       THEN Return("False") /\ UNCHANGED pipeline_completed_at
       ELSE pc' = "boundary" /\ UNCHANGED <<is_running, ret, pipeline_completed_at>>

\* variant of reset_pipeline_state that keeps the companies of the previous run
ResetPipelineState_KeepsData ==
    /\ pc = "idle"
    /\ ops' = 0
    /\ is_running' = FALSE
    /\ current_step' = 0
    /\ stop_requested' = FALSE
    /\ pipeline_started_at' = None
    /\ pipeline_completed_at' = None
    /\ steps' = create_initial_steps
    /\ company_employees' = EmptyDict
    /\ decision_makers' = <<>>
    /\ enriched_contacts' = <<>>
    /\ companies_csv_path' = None
    /\ contacts_csv_path' = None
    /\ pc' = "reset"
    /\ mode' = "full"
    /\ cur' = 0
    /\ outcome' = None
    /\ ret' = None
    /\ stop_observed' = FALSE
    /\ UNCHANGED <<skip_phantombuster, companies>>
    /\ UNCHANGED svc

\* handle_run_pipeline, first half: reset_pipeline_state()
ResetPipelineState ==
    /\ pc = "idle"
    /\ ops' = 0
    /\ is_running' = FALSE
    /\ current_step' = 0
    /\ stop_requested' = FALSE
    /\ pipeline_started_at' = None
    /\ pipeline_completed_at' = None
    /\ steps' = create_initial_steps
    /\ companies' = <<>>
    /\ company_employees' = EmptyDict
    /\ decision_makers' = <<>>
    /\ enriched_contacts' = <<>>
    /\ companies_csv_path' = None
    /\ contacts_csv_path' = None
    /\ pc' = "reset"
    /\ mode' = "full"
    /\ cur' = 0
    /\ outcome' = None
    /\ ret' = None
    /\ stop_observed' = FALSE
    /\ UNCHANGED skip_phantombuster
    /\ UNCHANGED svc

\* handle_run_pipeline, second half: run_full_pipeline(max_companies, skip) up to
\* the call of execute_step_1; sk is the checkbox of the sidebar
RunFullPipeline(sk) ==
    /\ pc = "reset"
    /\ skip_phantombuster' = sk
    /\ is_running' = TRUE
    /\ pipeline_started_at' = TS
    /\ pc' = "begin"
    /\ cur' = 1
    /\ UNCHANGED <<steps, current_step, stop_requested, pipeline_completed_at, data,
                   mode, outcome, ret, ops, hist>>
    /\ UNCHANGED svc

\* handle_run_step: run_single_step(step) up to the call of execute_step_<step>
RunSingleStep(step) ==
    /\ pc = "idle"
    /\ ops < MaxOps
    /\ ops' = ops + 1
    /\ is_running' = TRUE
    /\ pc' = "begin"
    /\ mode' = "single"
    /\ cur' = step
    /\ outcome' = None
    /\ ret' = None
    /\ stop_observed' = FALSE
    /\ UNCHANGED <<steps, current_step, stop_requested, pipeline_started_at,
                   pipeline_completed_at, data, skip_phantombuster>>
    /\ UNCHANGED svc

\* variant of MissingUpstream that records the failure on the step
MissingUpstream_MarksFailed ==
    /\ pc = "begin"
    /\ ~Upstream(cur)
    /\ outcome' = "ValueError"
    /\ steps' = update_step_state(steps, cur, [status |-> FAILED, error_message |-> ExcText])
    /\ Return("False")
    /\ UNCHANGED <<current_step, stop_requested, pipeline_started_at,
                   pipeline_completed_at, data, skip_phantombuster, mode, cur, ops, hist>>
    /\ UNCHANGED svc

\* execute_step_k raises ValueError before run_step_with_capture: no write at all,
\* the caller's "except" returns False
MissingUpstream ==
    /\ pc = "begin"
    /\ ~Upstream(cur)
    /\ outcome' = "ValueError"
    /\ Return("False")
    /\ UNCHANGED <<steps, current_step, stop_requested, pipeline_started_at,
                   pipeline_completed_at, data, skip_phantombuster, mode, cur, ops, hist>>
    /\ UNCHANGED svc

\* variant of StopAtEntry that marks the step and calls the stage function all the same
StopAtEntry_RunsAnyway ==
    /\ pc = "begin"
    /\ Upstream(cur)
    /\ stop_requested
    /\ steps' = update_step_state(steps, cur, [status |-> FAILED, error_message |-> UserStopMsg])
    /\ stop_observed' = TRUE
    /\ pc' = "running"
    /\ UNCHANGED <<sess, data, skip_phantombuster, mode, cur, outcome, ret, ops>>
    /\ UNCHANGED svc

\* run_step_with_capture finds the stop flag set: FAILED with the stop reason,
\* returns None, the stage function is not called
StopAtEntry ==
    /\ pc = "begin"
    /\ Upstream(cur)
    /\ stop_requested
    /\ steps' = update_step_state(steps, cur, [status |-> FAILED, error_message |-> UserStopMsg])
    /\ stop_observed' = TRUE
    /\ AfterExecute(cur, None)
    /\ UNCHANGED <<current_step, stop_requested, pipeline_started_at, data,
                   skip_phantombuster, mode, cur, ops>>
    /\ UNCHANGED svc

\* run_step_with_capture up to the call of the stage function
BeginStep ==
    /\ pc = "begin"
    /\ Upstream(cur)
    /\ ~stop_requested
    /\ current_step' = cur
    /\ steps' = update_step_state(steps, cur,
                    [status |-> RUNNING, started_at |-> TS, error_message |-> None])
    /\ pc' = "running"
    /\ UNCHANGED <<is_running, stop_requested, pipeline_started_at, pipeline_completed_at,
                   data, skip_phantombuster, mode, cur, outcome, ret, ops, hist>>
    /\ UNCHANGED svc

\* variant of Completed that leaves the status as it is
Completed_StaysRunning(k) ==
    update_step_state(add_step_log(steps, k, "output"), k, [completed_at |-> TS])

\* variant of Completed that writes the wrong status
Completed_AsSkipped(k) ==
    update_step_state(add_step_log(steps, k, "output"), k,
                      [status |-> SKIPPED, completed_at |-> TS])

\* the "try" branch of run_step_with_capture: the captured output, then COMPLETED
Completed(k) ==
    update_step_state(add_step_log(steps, k, "output"), k,
                      [status |-> COMPLETED, completed_at |-> TS])

Truthy(v) == IF v = <<>> THEN "empty" ELSE "nonempty"

\* variant of Raised in which the caller swallows the exception and goes on
Raised_Swallowed(k) ==
    /\ steps' = add_step_log(
                   update_step_state(add_step_log(steps, k, "output"), k,
                       [status |-> FAILED, error_message |-> ExcText, completed_at |-> TS]),
                   k, "ERREUR")
    /\ outcome' = "raised"
    /\ pc' = "boundary"
    /\ UNCHANGED <<is_running, ret>>
    /\ UNCHANGED <<current_step, stop_requested, pipeline_started_at, pipeline_completed_at,
                   skip_phantombuster, mode, cur, ops, hist, svc>>

\* the stage function raises: FAILED with the exception text, the ERREUR log line,
\* and the exception reaches the "except" of run_full_pipeline / run_single_step
Raised(k) ==
    /\ steps' = add_step_log(
                   update_step_state(add_step_log(steps, k, "output"), k,
                       [status |-> FAILED, error_message |-> ExcText, completed_at |-> TS]),
                   k, "ERREUR")
    /\ outcome' = "raised"
    /\ Return("False")
    /\ UNCHANGED <<current_step, stop_requested, pipeline_started_at, pipeline_completed_at,
                   skip_phantombuster, mode, cur, ops, hist, svc>>

Running(k) == pc = "running" /\ cur = k

Frame == UNCHANGED <<current_step, stop_requested, pipeline_started_at,
                     skip_phantombuster, mode, cur, ops, hist, svc>>

\* execute_step_1 after run_step_1_pappers returned r
Step1Returns(r) ==
    /\ Running(1)
    /\ IF r # <<>>
       THEN /\ companies' = r
            /\ steps' = update_step_state(Completed(1), 1, [result_count |-> Len(r)])
       ELSE /\ steps' = Completed(1)
            /\ UNCHANGED companies
    /\ AfterExecute(1, Truthy(r))
    /\ Frame
    /\ UNCHANGED <<company_employees, decision_makers, enriched_contacts,
                   companies_csv_path, contacts_csv_path>>

Step1Raises ==
    /\ Running(1)
    /\ Raised(1)
    /\ UNCHANGED data

\* execute_step_2 after run_step_2_linkedin returned r
Step2Returns(r) ==
    /\ Running(2)
    /\ companies' = r
    /\ steps' = update_step_state(Completed(2), 2, [result_count |-> WithLinkedinCount(r)])
    /\ AfterExecute(2, Truthy(r))
    /\ Frame
    /\ UNCHANGED <<company_employees, decision_makers, enriched_contacts,
                   companies_csv_path, contacts_csv_path>>

\* run_step_2_linkedin raises after updating the first n companies in place
Step2Raises(r) ==
    /\ Running(2)
    /\ companies' = r
    /\ Raised(2)
    /\ UNCHANGED <<company_employees, decision_makers, enriched_contacts,
                   companies_csv_path, contacts_csv_path>>

\* execute_step_3 after run_step_3_save_companies returned the path
Step3Returns ==
    /\ Running(3)
    /\ companies_csv_path' = Path
    /\ steps' = update_step_state(Completed(3), 3, [result_count |-> Len(companies)])
    /\ AfterExecute(3, "nonempty")
    /\ Frame
    /\ UNCHANGED <<companies, company_employees, decision_makers, enriched_contacts,
                   contacts_csv_path>>

Step3Raises ==
    /\ Running(3)
    /\ Raised(3)
    /\ UNCHANGED data

\* execute_step_4 after run_step_4_phantombuster returned r
Step4Returns(r) ==
    /\ Running(4)
    /\ IF DOMAIN r # {}
       THEN /\ company_employees' = r
            /\ steps' = update_step_state(Completed(4), 4,
                            [result_count |-> Cardinality(DOMAIN r)])
       ELSE /\ steps' = Completed(4)
            /\ UNCHANGED company_employees
    /\ AfterExecute(4, IF DOMAIN r # {} THEN "nonempty" ELSE "empty")
    /\ Frame
    /\ UNCHANGED <<companies, decision_makers, enriched_contacts,
                   companies_csv_path, contacts_csv_path>>

Step4Raises ==
    /\ Running(4)
    /\ Raised(4)
    /\ UNCHANGED data

\* execute_step_5 after run_step_5_filter_decision_makers returned r
Step5Returns(r) ==
    /\ Running(5)
    /\ IF r # <<>>
       THEN /\ decision_makers' = r
            /\ steps' = update_step_state(Completed(5), 5, [result_count |-> Len(r)])
       ELSE /\ steps' = Completed(5)
            /\ UNCHANGED decision_makers
    /\ AfterExecute(5, Truthy(r))
    /\ Frame
    /\ UNCHANGED <<companies, company_employees, enriched_contacts,
                   companies_csv_path, contacts_csv_path>>

Step5Raises ==
    /\ Running(5)
    /\ Raised(5)
    /\ UNCHANGED data

\* execute_step_6 after run_step_6_enrich_contacts returned r, which is the
\* decision_makers list itself, updated in place
Step6Returns(r) ==
    /\ Running(6)
    /\ decision_makers' = r
    /\ enriched_contacts' = r
    /\ steps' = update_step_state(Completed(6), 6, [result_count |-> WithEmailCount(r)])
    /\ AfterExecute(6, Truthy(r))
    /\ Frame
    /\ UNCHANGED <<companies, company_employees, companies_csv_path, contacts_csv_path>>

\* run_step_6_enrich_contacts raises: enrich_contacts_with_captely catches what its
\* provider calls raise, so it can only raise while preparing the request, before
\* it has updated any decision maker
Step6Raises ==
    /\ Running(6)
    /\ Raised(6)
    /\ UNCHANGED data

\* execute_step_7 after run_step_7_export returned the path
Step7Returns ==
    /\ Running(7)
    /\ contacts_csv_path' = Path
    /\ steps' = update_step_state(Completed(7), 7, [result_count |-> Len(enriched_contacts)])
    /\ AfterExecute(7, "nonempty")
    /\ Frame
    /\ UNCHANGED <<companies, company_employees, decision_makers, enriched_contacts,
                   companies_csv_path>>

Step7Raises ==
    /\ Running(7)
    /\ Raised(7)
    /\ UNCHANGED data

\* the step run_full_pipeline executes after step k when nothing stops it
NextStep(k) == IF k = 5 THEN 6 ELSE k + 1

\* variant of Boundary that does not read the stop flag
Boundary_NoStopCheck ==
    /\ pc = "boundary"
    /\ IF cur = 3 /\ skip_phantombuster
       THEN pc' = "leaders" /\ UNCHANGED cur
       ELSE pc' = "begin" /\ cur' = NextStep(cur)
    /\ UNCHANGED <<is_running, ret, stop_observed>>
    /\ UNCHANGED <<steps, current_step, stop_requested, pipeline_started_at,
                   pipeline_completed_at, data, skip_phantombuster, mode, outcome, ops>>
    /\ UNCHANGED svc

\* run_full_pipeline between two stages: "... or check_stop_requested(): return False",
\* then the branch on skip_phantombuster after step 3
Boundary ==
    /\ pc = "boundary"
    /\ IF stop_requested
       THEN /\ stop_observed' = TRUE
            /\ Return("False")
            /\ UNCHANGED cur
       ELSE /\ IF cur = 3 /\ skip_phantombuster
               THEN pc' = "leaders" /\ UNCHANGED cur
               ELSE pc' = "begin" /\ cur' = NextStep(cur)
            /\ UNCHANGED <<is_running, ret, stop_observed>>
    /\ UNCHANGED <<steps, current_step, stop_requested, pipeline_started_at,
                   pipeline_completed_at, data, skip_phantombuster, mode, outcome, ops>>
    /\ UNCHANGED svc

\* use_pappers_leaders, then run_full_pipeline goes on to execute_step_6
UsePappersLeaders ==
    /\ pc = "leaders"
    /\ LET all_decision_makers == Leaders(companies, 1)
       IN  /\ decision_makers' = all_decision_makers
           /\ steps' = add_step_log(
                  update_step_state(
                      update_step_state(steps, 4, [status |-> SKIPPED]), 5,
                      [status |-> COMPLETED, result_count |-> Len(all_decision_makers),
                       completed_at |-> TS]),
                  5, "Mode simplifie")
    /\ pc' = "begin"
    /\ cur' = 6
    /\ UNCHANGED <<sess, companies, company_employees, enriched_contacts,
                   companies_csv_path, contacts_csv_path, skip_phantombuster, mode,
                   outcome, ret, ops, hist>>
    /\ UNCHANGED svc

\* handle_load_csv: load_companies_from_csv when read_companies_csv returned r
LoadCompaniesFromCsv(r) ==
    /\ pc = "idle"
    /\ ops < MaxOps
    /\ ops' = ops + 1
    /\ companies' = r
    /\ LET Load(s, k) ==
               add_step_log(
                   update_step_state(s, k,
                       [status |-> COMPLETED, result_count |-> Len(r), completed_at |-> TS]),
                   k, "Charge depuis CSV")
       IN  steps' = Load(Load(Load(steps, 1), 2), 3)
    /\ mode' = "csv"
    /\ cur' = 0
    /\ outcome' = None
    /\ ret' = Truthy(r)
    /\ stop_observed' = FALSE
    /\ UNCHANGED <<sess, company_employees, decision_makers, enriched_contacts,
                   companies_csv_path, contacts_csv_path, skip_phantombuster, pc>>
    /\ UNCHANGED svc

\* load_companies_from_csv when read_companies_csv raises: caught, None returned
LoadCompaniesFromCsvFails ==
    /\ pc = "idle"
    /\ ops < MaxOps
    /\ ops' = ops + 1
    /\ mode' = "csv"
    /\ cur' = 0
    /\ outcome' = "raised"
    /\ ret' = None
    /\ stop_observed' = FALSE
    /\ UNCHANGED <<steps, sess, data, skip_phantombuster, pc>>
    /\ UNCHANGED svc

\* variant of StopRequest that also marks the current step as stopped
StopRequest_MarksCurrentStep ==
    /\ is_running
    /\ ~stop_requested
    /\ stop_requested' = TRUE
    /\ steps' = IF current_step \in Steps
                THEN update_step_state(steps, current_step,
                         [status |-> FAILED, error_message |-> UserStopMsg])
                ELSE steps
    /\ UNCHANGED <<is_running, current_step, pipeline_started_at,
                   pipeline_completed_at, data, ctl, stop_observed>>
    /\ UNCHANGED svc

\* render_sidebar: the "Arreter" button, enabled while is_running; pressing it again
\* when the flag is already set changes nothing
StopRequest ==
    /\ is_running
    /\ ~stop_requested
    /\ stop_requested' = TRUE
    /\ UNCHANGED <<steps, is_running, current_step, pipeline_started_at,
                   pipeline_completed_at, data, ctl, stop_observed>>
    /\ UNCHANGED svc

\* the steps of a run in progress, and the stop button
StageNext ==
    \/ MissingUpstream
    \/ StopAtEntry
    \/ BeginStep
    \/ \E r \in PappersResults : Step1Returns(r)
    \/ Step1Raises
    \/ \E r \in WithLinkedin(companies, Len(companies)) : Step2Returns(r)
    \/ \E n \in 0..(Len(companies) - 1) : \E r \in WithLinkedin(companies, n) : Step2Raises(r)
    \/ Step3Returns
    \/ Step3Raises
    \/ \E r \in PhantombusterResults(companies) : Step4Returns(r)
    \/ Step4Raises
    \/ \E r \in FilterResults(company_employees) : Step5Returns(r)
    \/ Step5Raises
    \/ \E r \in CaptelyResults(decision_makers) : Step6Returns(r)
    \/ Step6Raises
    \/ Step7Returns
    \/ Step7Raises
    \/ Boundary
    \/ UsePappersLeaders
    \/ StopRequest

\* the session: the buttons of the page in any order
Next ==
    \/ ResetPipelineState
    \/ \E sk \in BOOLEAN : RunFullPipeline(sk)
    \/ \E step \in Steps : RunSingleStep(step)
    \/ \E r \in CsvResults : LoadCompaniesFromCsv(r)
    \/ LoadCompaniesFromCsvFails
    \/ StageNext

Spec == Init /\ [][Next]_vars

\* full runs only: handle_run_pipeline, again and again
FullRunNext ==
    \/ ResetPipelineState
    \/ \E sk \in BOOLEAN : RunFullPipeline(sk)
    \/ StageNext

FullRun == Init /\ [][FullRunNext]_vars

\* full runs with skip_phantombuster set, of larger company lists, followed up to
\* the return of use_pappers_leaders with no failure and no stop request
LeadersNext ==
    \/ ResetPipelineState
    \/ RunFullPipeline(TRUE)
    \/ cur <= 3 /\ BeginStep
    \/ \E r \in PappersCompanies(LeadCompanies, LeadDirigeants) : Step1Returns(r)
    \/ \E r \in WithLinkedin(companies, Len(companies)) : Step2Returns(r)
    \/ Step3Returns
    \/ Boundary
    \/ UsePappersLeaders

LeadersRun == Init /\ [][LeadersNext]_vars

\* ------------------------------------------------------------------ rate_limiter
\* what the limiter's part of a step leaves alone
LimiterFrame == UNCHANGED <<pipe, job, enr, mat, batch, more>>

\* RateLimiter(max_calls, period) and the callers, before any call
LimiterInit(callers) ==
    /\ PipelineInit /\ JobIdle /\ EnrichIdle /\ MatchingIdle /\ BatchIdle /\ MoreIdle
    /\ clock = 0
    /\ calls = <<>>
    /\ recorded = <<>>
    /\ caller = [t \in callers |-> [pc |-> "idle", now |-> 0, wake |-> 0, done |-> 0]]

\* time passes, between any two steps of any caller
Tick ==
    /\ clock < MaxClock
    /\ clock' = clock + 1
    /\ UNCHANGED <<calls, recorded, caller>>
    /\ LimiterFrame

\* wait_if_needed: now = time.time()
ReadNow(t) ==
    /\ caller[t].pc = "idle"
    /\ caller[t].done < MaxWaits
    /\ caller' = [caller EXCEPT ![t].pc = "evict", ![t].now = clock]
    /\ UNCHANGED <<clock, calls, recorded>>
    /\ LimiterFrame

\* the test of "while self.calls and self.calls[0] < now - self.period"
EvictTest(t) ==
    /\ caller[t].pc = "evict"
    /\ caller' = [caller EXCEPT ![t].pc =
                     IF calls # <<>> /\ calls[1] < caller[t].now - period
                     THEN "popleft" ELSE "check"]
    /\ UNCHANGED <<clock, calls, recorded>>
    /\ LimiterFrame

\* self.calls.popleft(): IndexError on an empty deque
PopLeft(t) ==
    /\ caller[t].pc = "popleft"
    /\ IF calls = <<>>
       THEN caller' = [caller EXCEPT ![t].pc = "IndexError"] /\ UNCHANGED calls
       ELSE calls' = Tail(calls) /\ caller' = [caller EXCEPT ![t].pc = "evict"]
    /\ UNCHANGED <<clock, recorded>>
    /\ LimiterFrame

\* "if len(self.calls) >= self.max_calls"
CheckLimit(t) ==
    /\ caller[t].pc = "check"
    /\ caller' = [caller EXCEPT ![t].pc =
                     IF Len(calls) >= max_calls THEN "oldest" ELSE "append"]
    /\ UNCHANGED <<clock, calls, recorded>>
    /\ LimiterFrame

\* sleep_time = self.calls[0] - (now - self.period); time.sleep starts when positive
ReadOldest(t) ==
    /\ caller[t].pc = "oldest"
    /\ IF calls = <<>>
       THEN caller' = [caller EXCEPT ![t].pc = "IndexError"]
       ELSE LET sleep_time == calls[1] - (caller[t].now - period)
            IN  caller' = IF sleep_time > 0
                          THEN [caller EXCEPT ![t].pc = "sleep", ![t].wake = clock + sleep_time]
                          ELSE [caller EXCEPT ![t].pc = "append"]
    /\ UNCHANGED <<clock, calls, recorded>>
    /\ LimiterFrame

\* time.sleep(sleep_time) returns, after sleep_time at least
WakeUp(t) ==
    /\ caller[t].pc = "sleep"
    /\ clock >= caller[t].wake
    /\ caller' = [caller EXCEPT ![t].pc = "append"]
    /\ UNCHANGED <<clock, calls, recorded>>
    /\ LimiterFrame

\* self.calls.append(time.time())
AppendCall(t) ==
    /\ caller[t].pc = "append"
    /\ calls' = Append(calls, clock)
    /\ recorded' = Append(recorded, clock)
    /\ caller' = [caller EXCEPT ![t].pc = "idle", ![t].done = @ + 1]
    /\ UNCHANGED clock
    /\ LimiterFrame

\* one caller
LimiterSoloNext ==
    \/ Tick
    \/ ReadNow(1)
    \/ EvictTest(1)
    \/ PopLeft(1)
    \/ CheckLimit(1)
    \/ ReadOldest(1)
    \/ WakeUp(1)
    \/ AppendCall(1)

LimiterSolo == LimiterInit({1}) /\ [][LimiterSoloNext]_vars

\* two threads sharing the limiter
LimiterSharedNext ==
    \/ Tick
    \/ \E t \in {1, 2} : ReadNow(t)
    \/ \E t \in {1, 2} : EvictTest(t)
    \/ \E t \in {1, 2} : PopLeft(t)
    \/ \E t \in {1, 2} : CheckLimit(t)
    \/ \E t \in {1, 2} : ReadOldest(t)
    \/ \E t \in {1, 2} : WakeUp(t)
    \/ \E t \in {1, 2} : AppendCall(t)

LimiterShared == LimiterInit({1, 2}) /\ [][LimiterSharedNext]_vars

\* ------------------------------------------------------------------ poll loops
Providers == {"captely", "phantombuster"}

\* what a status query can come back with: the provider's answer put in classes
\* (pending/processing, starting/running; completed, finished; failed, launch error,
\* agent not running), a request that raises, an HTTP status other than 200
Responses == {"in_progress", "success", "failed", "transport_error", "http_error"}

PollerFrame == UNCHANGED <<pipe, limiter, enr, mat, batch, more>>

\* one provider job about to be submitted, timeout and poll_interval chosen by the caller
PollerInit ==
    /\ PipelineInit /\ LimiterIdle /\ EnrichIdle /\ MatchingIdle /\ BatchIdle /\ MoreIdle
    /\ job \in [kind : Providers, timeout : 0..MaxTimeout, poll_interval : 1..MaxInterval,
                pc : {"launch"}, elapsed : {0}, responses : {<<>>},
                returned : {None}, ended_by : {None}, fetches : {0}]

\* enrich_bulk / launch_agent: a job id, or None
LaunchJob(id) ==
    /\ job.pc = "launch"
    /\ job' = [job EXCEPT !.pc = IF id = None THEN "abandoned" ELSE "test"]
    /\ PollerFrame

\* "while time.time() - start_time < timeout", and the return after the loop
LoopTest_Inclusive ==
    /\ job.pc = "test"
    /\ job' = IF job.elapsed <= job.timeout
              THEN [job EXCEPT !.pc = "query"]
              ELSE [job EXCEPT !.pc = "returned", !.returned = "False", !.ended_by = "timeout"]
    /\ PollerFrame

LoopTest ==
    /\ job.pc = "test"
    /\ job' = IF job.elapsed < job.timeout
              THEN [job EXCEPT !.pc = "query"]
              ELSE [job EXCEPT !.pc = "returned", !.returned = "False", !.ended_by = "timeout"]
    /\ PollerFrame

\* get_bulk_status as wait_for_bulk_completion reads it: a request that fails comes
\* back as {"status": "error"}
get_bulk_status(resp) ==
    CASE resp = "in_progress" -> "processing"
      [] resp = "success" -> "completed"
      [] resp = "failed" -> "failed"
      [] OTHER -> "error"

\* one pass of the loop body of wait_for_bulk_completion, up to the sleep
CaptelyPoll(resp) ==
    LET status == get_bulk_status(resp)
    IN  IF status = "completed"
        THEN [job EXCEPT !.pc = "returned", !.returned = "True", !.ended_by = "success",
                         !.responses = Append(@, resp)]
        ELSE IF status \in {"failed", "error"}
        THEN [job EXCEPT !.pc = "returned", !.returned = "False", !.ended_by = "failed",
                         !.responses = Append(@, resp)]
        ELSE [job EXCEPT !.pc = "sleep", !.responses = Append(@, resp)]

\* one pass of the loop body of wait_for_completion, up to the sleep
PhantombusterPoll(resp) ==
    IF resp = "success"
    THEN [job EXCEPT !.pc = "returned", !.returned = "True", !.ended_by = "success",
                     !.responses = Append(@, resp)]
    ELSE IF resp = "failed"
    THEN [job EXCEPT !.pc = "returned", !.returned = "False", !.ended_by = "failed",
                     !.responses = Append(@, resp)]
    ELSE [job EXCEPT !.pc = "sleep", !.responses = Append(@, resp)]

StatusQuery(resp) ==
    /\ job.pc = "query"
    /\ job' = IF job.kind = "captely" THEN CaptelyPoll(resp) ELSE PhantombusterPoll(resp)
    /\ PollerFrame

\* time.sleep(poll_interval)
PollSleep_Doubled ==
    /\ job.pc = "sleep"
    /\ job' = [job EXCEPT !.pc = "test", !.elapsed = @ + 2 * job.poll_interval]
    /\ PollerFrame

PollSleep ==
    /\ job.pc = "sleep"
    /\ job' = [job EXCEPT !.pc = "test", !.elapsed = @ + job.poll_interval]
    /\ PollerFrame

\* get_bulk_results inside "if wait_for_bulk_completion(...)"; get_output after
\* wait_for_completion whatever it returned
FetchResults ==
    /\ job.pc = "returned"
    /\ job.kind = "captely" => job.returned = "True"
    /\ job' = [job EXCEPT !.pc = "fetched", !.fetches = @ + 1]
    /\ PollerFrame

\* enrich_contacts_with_captely leaves the job when the wait returned False
AbandonJob ==
    /\ job.pc = "returned"
    /\ job.kind = "captely"
    /\ job.returned = "False"
    /\ job' = [job EXCEPT !.pc = "abandoned"]
    /\ PollerFrame

PollerNext ==
    \/ \E id \in {None, "id"} : LaunchJob(id)
    \/ LoopTest
    \/ \E resp \in Responses : StatusQuery(resp)
    \/ PollSleep
    \/ FetchResults
    \/ AbandonJob

Poller == PollerInit /\ [][PollerNext]_vars

\* the same, every loop step eventually taken
PollerLive == PollerInit /\ [][PollerNext]_vars /\ WF_vars(PollerNext)

\* ------------------------------------------------------------------ captely matching
\* strings are sequences of characters; str.lower()
Lower(str) ==
    [i \in 1..Len(str) |->
        CASE str[i] = "A" -> "a"
          [] str[i] = "C" -> "c"
          [] OTHER -> str[i]]

\* positions of the separator of full_name.split(" ", 1)
SpaceAt(str) == {i \in 1..Len(str) : str[i] = " "}

FirstSpace(str) == CHOOSE i \in SpaceAt(str) : \A j \in SpaceAt(str) : i <= j

\* parts[0] if parts else ""
SplitHead(str) ==
    IF SpaceAt(str) = {} THEN str ELSE SubSeq(str, 1, FirstSpace(str) - 1)

\* parts[1] if len(parts) > 1 else ""
SplitRest(str) ==
    IF SpaceAt(str) = {} THEN <<>> ELSE SubSeq(str, FirstSpace(str) + 1, Len(str))

\* decision makers as filter_decision_makers / use_pappers_leaders hand them over
DecisionMakers ==
    {dm \in [firstName : {<<>>, <<"a">>, <<"a", "_", "a">>},
             lastName : {<<"a">>, <<"a", "_", "a">>},
             name : {<<"A", " ", "a">>, <<"A">>},
             entreprise : {<<"c">>},
             email : {None}] :
        dm.firstName # <<>> => dm.name = <<"A", " ", "a">>}

\* records of a bulk result page
BulkResults ==
    [first_name : {<<"A">>, <<"a", "_", "a">>},
     last_name : {<<"a">>, <<"a", "_", "a">>},
     company : {<<"C">>},
     email : {"email"}]

\* first_name, last_name, company of the loop over decision_makers
ContactData(dm, i) ==
    LET named == dm.firstName # <<>> /\ dm.lastName # <<>>
    IN  [first_name |-> IF named THEN dm.firstName ELSE SplitHead(dm.name),
         last_name |-> IF named THEN dm.lastName ELSE SplitRest(dm.name),
         company |-> dm.entreprise,
         original_index |-> i]

\* "if not first_name or not last_name or not company: continue"
HasIdentity(c) == c.first_name # <<>> /\ c.last_name # <<>> /\ c.company # <<>>

\* a key that leaves the first name out
CompositeKey_NoFirst(first, last, company) ==
    Lower(last \o <<"_">> \o company)

\* f"{first}_{last}_{company}".lower()
CompositeKey(first, last, company) ==
    Lower(first \o <<"_">> \o last \o <<"_">> \o company)

ContactKey(c) == CompositeKey(c.first_name, c.last_name, c.company)

\* contacts_for_api, by original_index
Submitted(dms) ==
    {i \in 1..Len(dms) : HasIdentity(ContactData(dms[i], i))}

\* a map in which the first record with a key keeps it
contact_map_FirstWins(dms) ==
    [key \in {ContactKey(ContactData(dms[i], i)) : i \in Submitted(dms)} |->
        CHOOSE i \in Submitted(dms) :
            /\ ContactKey(ContactData(dms[i], i)) = key
            /\ \A j \in Submitted(dms) :
                  ContactKey(ContactData(dms[j], j)) = key => i <= j]

\* contact_map: a dict, the last record with a key keeps it
contact_map(dms) ==
    [key \in {ContactKey(ContactData(dms[i], i)) : i \in Submitted(dms)} |->
        CHOOSE i \in Submitted(dms) :
            /\ ContactKey(ContactData(dms[i], i)) = key
            /\ \A j \in Submitted(dms) :
                  ContactKey(ContactData(dms[j], j)) = key => j <= i]

\* the body of "for result in results"
MapResult(dms, cmap, result) ==
    LET key == CompositeKey(result.first_name, result.last_name, result.company)
    IN  IF key \in DOMAIN cmap
        THEN [dms EXCEPT ![cmap[key]].email = result.email]
        ELSE dms

\* "for result in results", the first n of them
RECURSIVE MapResults(_, _, _, _)
MapResults(dms, cmap, results, n) ==
    IF n = 0 THEN dms
    ELSE MapResult(MapResults(dms, cmap, results, n - 1), cmap, results[n])

MatchingFrame == UNCHANGED <<pipe, limiter, job, enr, batch, more>>

\* a completed bulk job: the submitted decision makers and the result page
MatchingInit ==
    /\ PipelineInit /\ LimiterIdle /\ JobIdle /\ EnrichIdle /\ BatchIdle /\ MoreIdle
    /\ mat \in [pc : {"results"},
                decision_makers : SeqsUpTo(DecisionMakers, MaxContacts),
                results : SeqsUpTo(BulkResults, MaxResults),
                mapped : {<<>>}]

\* "if results:" and the mapping loop
MapBulkResults ==
    /\ mat.pc = "results"
    /\ mat' = [mat EXCEPT !.pc = "mapped",
                          !.mapped = MapResults(mat.decision_makers,
                                                contact_map(mat.decision_makers),
                                                mat.results, Len(mat.results))]
    /\ MatchingFrame

Matching == MatchingInit /\ [][MapBulkResults]_vars

\* ------------------------------------------------------------------ captely enrichment
EnrichFrame == UNCHANGED <<pipe, limiter, job, mat, batch, more>>

\* enrich_contacts_with_captely(decision_makers) called
EnrichInit ==
    /\ PipelineInit /\ LimiterIdle /\ JobIdle /\ MatchingIdle /\ BatchIdle /\ MoreIdle
    /\ enr \in [pc : {"start"},
                decision_makers : SeqsUpTo(DecisionMakers, MaxContacts),
                bulk_calls : {0},
                bulk_success : {FALSE},
                bulk_failure : {None},
                next : {1},
                unit_calls : {<<>>},
                outcomes : {<<>>}]

\* the early returns and the preparation of contacts_for_api
PrepareContacts ==
    /\ enr.pc = "start"
    /\ enr' = [enr EXCEPT
                 !.pc = IF Submitted(enr.decision_makers) = {} THEN "returned" ELSE "bulk",
                 !.unit_calls = [i \in 1..Len(enr.decision_makers) |-> 0],
                 !.outcomes = [i \in 1..Len(enr.decision_makers) |-> None]]
    /\ EnrichFrame

\* job_id = client.enrich_bulk(...); "if job_id:"
EnrichBulk(job_id) ==
    /\ enr.pc = "bulk"
    /\ enr' = IF job_id = None
              THEN [enr EXCEPT !.pc = "fallback", !.bulk_calls = @ + 1,
                               !.bulk_failure = "no_job_id"]
              ELSE [enr EXCEPT !.pc = "wait", !.bulk_calls = @ + 1]
    /\ EnrichFrame

\* "if client.wait_for_bulk_completion(job_id, timeout=600, poll_interval=5):"
WaitForBulk(completed) ==
    /\ enr.pc = "wait"
    /\ enr' = IF completed
              THEN [enr EXCEPT !.pc = "results"]
              ELSE [enr EXCEPT !.pc = "fallback", !.bulk_failure = "not_completed"]
    /\ EnrichFrame

\* get_bulk_results, "if results:", bulk_success = True and the mapping loop
GetBulkResults(results) ==
    /\ enr.pc = "results"
    /\ enr' = IF results = <<>>
              THEN [enr EXCEPT !.pc = "fallback", !.bulk_failure = "no_results"]
              ELSE [enr EXCEPT !.pc = "returned", !.bulk_success = TRUE,
                               !.decision_makers =
                                   MapResults(enr.decision_makers,
                                              contact_map(enr.decision_makers),
                                              results, Len(results))]
    /\ EnrichFrame

\* an exception in the mapping loop, after n results: bulk_success is already True
MappingRaises(results, n) ==
    /\ enr.pc = "results"
    /\ n < Len(results)
    /\ enr' = [enr EXCEPT !.pc = "returned", !.bulk_success = TRUE,
                          !.decision_makers =
                              MapResults(enr.decision_makers,
                                         contact_map(enr.decision_makers), results, n)]
    /\ EnrichFrame

\* "except Exception" around the bulk attempt, before bulk_success is set
BulkRaises ==
    /\ enr.pc \in {"bulk", "wait", "results"}
    /\ enr' = [enr EXCEPT !.pc = "fallback", !.bulk_failure = "exception",
                          !.bulk_calls = IF enr.pc = "bulk" THEN @ + 1 ELSE @]
    /\ EnrichFrame

\* the contact the fallback loop is at
NextContact ==
    CHOOSE i \in Submitted(enr.decision_makers) :
        /\ i >= enr.next
        /\ \A j \in Submitted(enr.decision_makers) : j >= enr.next => i <= j

\* what a unitary call leaves in dm["email"]: the result's email; a result without
\* one, or the {"error": ...} dict, sets None; an exception is caught and sets nothing
UnitaryEmail(email, answer) ==
    CASE answer = "found" -> "email"
      [] answer = "not_found" -> None
      [] answer = "error" -> None
      [] OTHER -> email

\* a fallback loop that ends at the first exception
EnrichContact_StopsOnError(answer) ==
    /\ enr.pc = "fallback"
    /\ LET i == NextContact
       IN  enr' = [enr EXCEPT
                     !.unit_calls[i] = @ + 1,
                     !.outcomes[i] = answer,
                     !.decision_makers[i].email = UnitaryEmail(@, answer),
                     !.next = i + 1,
                     !.pc = IF answer = "raises"
                               \/ \A j \in Submitted(enr.decision_makers) : j <= i
                            THEN "returned" ELSE "fallback"]
    /\ EnrichFrame

\* one pass of "for contact in contacts_for_api": client.enrich_contact in its try
EnrichContact(answer) ==
    /\ enr.pc = "fallback"
    /\ LET i == NextContact
       IN  enr' = [enr EXCEPT
                     !.unit_calls[i] = @ + 1,
                     !.outcomes[i] = answer,
                     !.decision_makers[i].email = UnitaryEmail(@, answer),
                     !.next = i + 1,
                     !.pc = IF \A j \in Submitted(enr.decision_makers) : j <= i
                            THEN "returned" ELSE "fallback"]
    /\ EnrichFrame

EnrichNext ==
    \/ PrepareContacts
    \/ \E job_id \in {None, "id"} : EnrichBulk(job_id)
    \/ \E completed \in BOOLEAN : WaitForBulk(completed)
    \/ \E results \in SeqsUpTo(BulkResults, MaxResults) : GetBulkResults(results)
    \/ \E results \in SeqsUpTo(BulkResults, MaxResults) :
          \E n \in 0..MaxResults : MappingRaises(results, n)
    \/ BulkRaises
    \/ \E answer \in {"found", "not_found", "error", "raises"} : EnrichContact(answer)

Enrich == EnrichInit /\ [][EnrichNext]_vars

\* ------------------------------------------------------------------ phantombuster batch
BatchFrame == UNCHANGED <<pipe, limiter, job, enr, mat, more>>

\* extract_employees_batch(companies) called; a company is TRUE when it has a linkedin_url
BatchInit ==
    /\ PipelineInit /\ LimiterIdle /\ JobIdle /\ EnrichIdle /\ MatchingIdle /\ MoreIdle
    /\ batch \in [pc : {"start"},
                  companies : SeqsUpTo(BOOLEAN, MaxEntities),
                  results : {<<>>},
                  failed : {{}},
                  next : {1}]

\* companies_with_linkedin, by position in companies
companies_with_linkedin == {i \in 1..Len(batch.companies) : batch.companies[i]}

\* the filter, the early return of {} and results = {}
FilterCompanies ==
    /\ batch.pc = "start"
    /\ batch' = [batch EXCEPT
                   !.pc = IF companies_with_linkedin = {} THEN "returned" ELSE "loop",
                   !.results = [i \in 1..Len(batch.companies) |-> "absent"]]
    /\ BatchFrame

\* the company the loop is at
NextCompany ==
    CHOOSE i \in companies_with_linkedin :
        /\ i >= batch.next
        /\ \A j \in companies_with_linkedin : j >= batch.next => i <= j

\* one pass of the loop: extract_employees_from_linkedin returns a list, possibly empty
ExtractReturns(employees) ==
    /\ batch.pc = "loop"
    /\ LET i == NextCompany
       IN  batch' = [batch EXCEPT
                       !.results[i] = employees,
                       !.next = i + 1,
                       !.pc = IF \A j \in companies_with_linkedin : j <= i
                              THEN "returned" ELSE "loop"]
    /\ BatchFrame

\* extract_employees_from_linkedin raises: nothing in the loop catches it
ExtractRaises ==
    /\ batch.pc = "loop"
    /\ batch' = [batch EXCEPT !.failed = @ \cup {NextCompany}, !.pc = "raised"]
    /\ BatchFrame

BatchNext ==
    \/ FilterCompanies
    \/ \E employees \in {"employees", "empty"} : ExtractReturns(employees)
    \/ ExtractRaises

Batch == BatchInit /\ [][BatchNext]_vars

\* ------------------------------------------------------------------ reset, key by key
\* the session keys reset_pipeline_state assigns, as a reader finds them
Snapshot ==
    [steps |-> steps, is_running |-> is_running, current_step |-> current_step,
     stop_requested |-> stop_requested,
     pipeline_started_at |-> pipeline_started_at,
     pipeline_completed_at |-> pipeline_completed_at,
     companies |-> companies, company_employees |-> company_employees,
     decision_makers |-> decision_makers, enriched_contacts |-> enriched_contacts,
     companies_csv_path |-> companies_csv_path, contacts_csv_path |-> contacts_csv_path]

\* the same keys once reset_pipeline_state has returned
ResetSnapshot ==
    [steps |-> create_initial_steps, is_running |-> FALSE, current_step |-> 0,
     stop_requested |-> FALSE, pipeline_started_at |-> None, pipeline_completed_at |-> None,
     companies |-> <<>>, company_employees |-> EmptyDict,
     decision_makers |-> <<>>, enriched_contacts |-> <<>>,
     companies_csv_path |-> None, contacts_csv_path |-> None]

ResetFrame == UNCHANGED <<limiter, job, enr, mat, batch, nine, agent>>

\* handle_run_pipeline calls reset_pipeline_state
BeginReset ==
    /\ pc = "idle"
    /\ rst.pc = Unused
    /\ pc' = "resetting"
    /\ rst' = [pc |-> "assigning", at |-> 1, before |-> Snapshot, seen |-> Snapshot]
    /\ UNCHANGED <<steps, sess, data, skip_phantombuster, mode, cur, outcome, ret, ops, hist>>
    /\ ResetFrame

\* the next of the twelve assignments of reset_pipeline_state; after the last one the
\* function returns
ResetAssign ==
    /\ pc = "resetting"
    /\ LET at == rst.at
       IN  /\ is_running' = IF at = 1 THEN FALSE ELSE is_running
           /\ current_step' = IF at = 2 THEN 0 ELSE current_step
           /\ stop_requested' = IF at = 3 THEN FALSE ELSE stop_requested
           /\ pipeline_started_at' = IF at = 4 THEN None ELSE pipeline_started_at
           /\ pipeline_completed_at' = IF at = 5 THEN None ELSE pipeline_completed_at
           /\ steps' = IF at = 6 THEN create_initial_steps ELSE steps
           /\ companies' = IF at = 7 THEN <<>> ELSE companies
           /\ company_employees' = IF at = 8 THEN EmptyDict ELSE company_employees
           /\ decision_makers' = IF at = 9 THEN <<>> ELSE decision_makers
           /\ enriched_contacts' = IF at = 10 THEN <<>> ELSE enriched_contacts
           /\ companies_csv_path' = IF at = 11 THEN None ELSE companies_csv_path
           /\ contacts_csv_path' = IF at = 12 THEN None ELSE contacts_csv_path
           /\ IF at = 12
              THEN /\ pc' = "reset"
                   /\ rst' = [pc |-> Unused]
                   /\ mode' = "full" /\ cur' = 0 /\ outcome' = None /\ ret' = None
                   /\ ops' = 0 /\ stop_observed' = FALSE
              ELSE /\ rst' = [rst EXCEPT !.at = at + 1]
                   /\ UNCHANGED <<pc, mode, cur, outcome, ret, ops, stop_observed>>
    /\ UNCHANGED skip_phantombuster
    /\ ResetFrame

\* a reader of st.session_state that runs between two of the assignments
ReadSession ==
    /\ pc = "resetting"
    /\ rst' = [rst EXCEPT !.seen = Snapshot]
    /\ UNCHANGED pipe
    /\ ResetFrame

\* full runs, the reset taken one assignment at a time
ResetRaceNext ==
    \/ BeginReset
    \/ ResetAssign
    \/ ReadSession
    \/ \E sk \in BOOLEAN : RunFullPipeline(sk)
    \/ StageNext

ResetRace == Init /\ [][ResetRaceNext]_vars

\* ------------------------------------------------------------------ src/app.py
NineSteps == 1..9

\* create_initial_steps of src/app.py
NineInitialSteps ==
    [i \in NineSteps |-> [status |-> PENDING, result_count |-> 0, error_message |-> None]]

NineFrame == UNCHANGED <<pipe, limiter, job, enr, mat, batch, rst, agent>>

\* the page before the button is pressed: the checkbox and what config.py holds
NineInit ==
    /\ PipelineInit /\ LimiterIdle /\ JobIdle /\ EnrichIdle /\ MatchingIdle /\ BatchIdle
    /\ rst = [pc |-> Unused] /\ agent = [pc |-> Unused]
    /\ nine \in [pc : {"start"},
                 skip_phantombuster : BOOLEAN,
                 PHANTOMBUSTER_API_KEY : BOOLEAN,
                 PHANTOMBUSTER_AGENT_ID : BOOLEAN,
                 GOOGLE_SHEETS : BOOLEAN,
                 EMELIA : BOOLEAN,
                 steps : {NineInitialSteps},
                 writes : {[i \in NineSteps |-> <<>>]},
                 raised : {{}},
                 halt : {0},
                 ret : {None},
                 companies : {0}, linkedin : {0}, company_employees : {0},
                 decision_makers : {0}, enriched_contacts : {0}]

\* update_step_state(step, **kw) of src/app.py, the status written kept in writes
NinePut(n, step, kw) ==
    [n EXCEPT !.steps = update_step_state(n.steps, step, kw),
              !.writes[step] = Append(@, kw.status)]

\* "return False" at or after step k
NineHalt(n, k) == [n EXCEPT !.pc = "returned", !.ret = "False", !.halt = k]

\* the except clause of a stage that halts the run
NineFails(n, k) ==
    NineHalt([NinePut(n, k, [status |-> FAILED, error_message |-> ExcText])
                 EXCEPT !.raised = @ \cup {k}], k)

\* reset_pipeline_state() at the top of run_pipeline_with_logs
NineStart ==
    /\ nine.pc = "start"
    /\ nine' = [nine EXCEPT !.pc = "step1", !.steps = NineInitialSteps,
                            !.companies = 0, !.company_employees = 0,
                            !.decision_makers = 0, !.enriched_contacts = 0]
    /\ NineFrame

\* step 1 and the test "if not companies"
Nine1Returns(c) ==
    /\ nine.pc = "step1"
    /\ LET n == [NinePut(nine, 1, [status |-> COMPLETED, result_count |-> c])
                    EXCEPT !.companies = c]
       IN  nine' = IF c = 0 THEN NineHalt(n, 1) ELSE [n EXCEPT !.pc = "step2"]
    /\ NineFrame

Nine1Raises ==
    /\ nine.pc = "step1"
    /\ nine' = NineFails(nine, 1)
    /\ NineFrame

\* step 2: l of the companies come back with a linkedin_url
Nine2Returns(l) ==
    /\ nine.pc = "step2"
    /\ nine' = [NinePut(nine, 2, [status |-> COMPLETED, result_count |-> l])
                   EXCEPT !.linkedin = l, !.pc = "step3"]
    /\ NineFrame

Nine2Raises ==
    /\ nine.pc = "step2"
    /\ nine' = NineFails(nine, 2)
    /\ NineFrame

\* step 3
Nine3Returns ==
    /\ nine.pc = "step3"
    /\ nine' = [NinePut(nine, 3, [status |-> COMPLETED, result_count |-> nine.companies])
                   EXCEPT !.pc = "branch"]
    /\ NineFrame

\* a variant of step 3 raising that ends the run
Nine3Raises_Halts ==
    /\ nine.pc = "step3"
    /\ nine' = NineFails(nine, 3)
    /\ NineFrame

\* step 3 raises: FAILED, and the function goes on
Nine3Raises ==
    /\ nine.pc = "step3"
    /\ nine' = [NinePut(nine, 3, [status |-> FAILED, error_message |-> ExcText])
                   EXCEPT !.raised = @ \cup {3}, !.pc = "branch"]
    /\ NineFrame

\* "if skip_phantombuster": step 4 SKIPPED, the dirigeants become the decision makers,
\* step 5 COMPLETED; then the test "if not all_decision_makers"
NineLeaders(d) ==
    /\ nine.pc = "branch"
    /\ nine.skip_phantombuster
    /\ LET n == [NinePut(NinePut(nine, 4, [status |-> SKIPPED]), 5,
                         [status |-> COMPLETED, result_count |-> d])
                    EXCEPT !.decision_makers = d]
       IN  nine' = IF d = 0 THEN NineHalt(n, 5) ELSE [n EXCEPT !.pc = "step6"]
    /\ NineFrame

\* step 4 up to the two configuration tests
Nine4Begin ==
    /\ nine.pc = "branch"
    /\ ~nine.skip_phantombuster
    /\ LET n == NinePut(nine, 4, [status |-> RUNNING])
       IN  nine' = IF nine.PHANTOMBUSTER_API_KEY /\ nine.PHANTOMBUSTER_AGENT_ID
                   THEN [n EXCEPT !.pc = "step4"]
                   ELSE NineHalt(NinePut(n, 4, [status |-> FAILED]), 4)
    /\ NineFrame

\* step 4 with no company with a linkedin_url: SKIPPED, company_employees = {}, and
\* the statements after the if/else
Nine4NoLinkedin ==
    /\ nine.pc = "step4"
    /\ nine.linkedin = 0
    /\ nine' = [NinePut(NinePut(nine, 4, [status |-> SKIPPED]), 4,
                        [status |-> COMPLETED, result_count |-> 0])
                   EXCEPT !.company_employees = 0, !.pc = "step5"]
    /\ NineFrame

\* step 4: run_step_4_phantombuster returns entries for e companies
Nine4Returns(e) ==
    /\ nine.pc = "step4"
    /\ nine.linkedin > 0
    /\ nine' = [NinePut(nine, 4, [status |-> COMPLETED, result_count |-> e])
                   EXCEPT !.company_employees = e, !.pc = "step5"]
    /\ NineFrame

Nine4Raises ==
    /\ nine.pc = "step4"
    /\ nine.linkedin > 0
    /\ nine' = NineFails(nine, 4)
    /\ NineFrame

\* step 5 and the test "if not all_decision_makers"
Nine5Returns(d) ==
    /\ nine.pc = "step5"
    /\ LET n == [NinePut(nine, 5, [status |-> COMPLETED, result_count |-> d])
                    EXCEPT !.decision_makers = d]
       IN  nine' = IF d = 0 THEN NineHalt(n, 5) ELSE [n EXCEPT !.pc = "step6"]
    /\ NineFrame

Nine5Raises ==
    /\ nine.pc = "step5"
    /\ nine' = NineFails(nine, 5)
    /\ NineFrame

\* step 6: m of the contacts come back with an email
Nine6Returns(m) ==
    /\ nine.pc = "step6"
    /\ nine' = [NinePut(nine, 6, [status |-> COMPLETED, result_count |-> m])
                   EXCEPT !.enriched_contacts = nine.decision_makers, !.pc = "step7"]
    /\ NineFrame

Nine6Raises ==
    /\ nine.pc = "step6"
    /\ nine' = NineFails(nine, 6)
    /\ NineFrame

\* step 7
Nine7Returns ==
    /\ nine.pc = "step7"
    /\ nine' = [NinePut(nine, 7, [status |-> COMPLETED,
                                  result_count |-> nine.enriched_contacts])
                   EXCEPT !.pc = "step8"]
    /\ NineFrame

Nine7Raises ==
    /\ nine.pc = "step7"
    /\ nine' = [NinePut(nine, 7, [status |-> FAILED, error_message |-> ExcText])
                   EXCEPT !.raised = @ \cup {7}, !.pc = "step8"]
    /\ NineFrame

\* step 8: configured and synchronised, c contacts written
Nine8Returns(c) ==
    /\ nine.pc = "step8"
    /\ nine.GOOGLE_SHEETS
    /\ nine' = [NinePut(nine, 8, [status |-> COMPLETED, result_count |-> c])
                   EXCEPT !.pc = "step9"]
    /\ NineFrame

\* step 8 not configured
Nine8Unconfigured ==
    /\ nine.pc = "step8"
    /\ ~nine.GOOGLE_SHEETS
    /\ nine' = [NinePut(nine, 8, [status |-> SKIPPED]) EXCEPT !.pc = "step9"]
    /\ NineFrame

\* step 8 raises
Nine8Raises ==
    /\ nine.pc = "step8"
    /\ nine.GOOGLE_SHEETS
    /\ nine' = [NinePut(nine, 8, [status |-> SKIPPED])
                   EXCEPT !.raised = @ \cup {8}, !.pc = "step9"]
    /\ NineFrame

\* step 9: configured and sent, c contacts accepted; return True
Nine9Returns(c) ==
    /\ nine.pc = "step9"
    /\ nine.EMELIA
    /\ nine' = [NinePut(nine, 9, [status |-> COMPLETED, result_count |-> c])
                   EXCEPT !.pc = "returned", !.ret = "True"]
    /\ NineFrame

Nine9Unconfigured ==
    /\ nine.pc = "step9"
    /\ ~nine.EMELIA
    /\ nine' = [NinePut(nine, 9, [status |-> SKIPPED])
                   EXCEPT !.pc = "returned", !.ret = "True"]
    /\ NineFrame

Nine9Raises ==
    /\ nine.pc = "step9"
    /\ nine.EMELIA
    /\ nine' = [NinePut(nine, 9, [status |-> SKIPPED])
                   EXCEPT !.raised = @ \cup {9}, !.pc = "returned", !.ret = "True"]
    /\ NineFrame

NineNext ==
    \/ NineStart
    \/ \E c \in 0..MaxCompanies : Nine1Returns(c)
    \/ Nine1Raises
    \/ \E l \in 0..nine.companies : Nine2Returns(l)
    \/ Nine2Raises
    \/ Nine3Returns
    \/ Nine3Raises
    \/ \E d \in 0..(nine.companies * MaxDirigeants) : NineLeaders(d)
    \/ Nine4Begin
    \/ Nine4NoLinkedin
    \/ \E e \in 0..nine.linkedin : Nine4Returns(e)
    \/ Nine4Raises
    \/ \E d \in 0..(nine.company_employees * MaxPersonas) : Nine5Returns(d)
    \/ Nine5Raises
    \/ \E m \in 0..nine.decision_makers : Nine6Returns(m)
    \/ Nine6Raises
    \/ Nine7Returns
    \/ Nine7Raises
    \/ \E c \in 0..nine.enriched_contacts : Nine8Returns(c)
    \/ Nine8Unconfigured
    \/ Nine8Raises
    \/ \E c \in 0..nine.enriched_contacts : Nine9Returns(c)
    \/ Nine9Unconfigured
    \/ Nine9Raises

NineRun == NineInit /\ [][NineNext]_vars

\* ------------------------------------------------------------------ phantombuster agent
\* companies handed to extract_employees_batch, one launch each
MaxLaunches == 2

\* polls of wait_for_completion that fit in its timeout
MaxPolls == 2

AgentFrame == UNCHANGED <<pipe, limiter, job, enr, mat, batch, rst, nine>>

\* the status field of /agents/fetch-output?id=<agent_id>: that of the container the
\* provider serves for the agent, "never launched" when there is none
AgentStatus(a) == IF a.shown = 0 THEN "never launched" ELSE a.runs[a.shown].status

\* the agent as extract_employees_batch finds it: never launched, or with the finished
\* run of an earlier execution (company 0)
AgentInit ==
    /\ PipelineInit /\ LimiterIdle /\ JobIdle /\ EnrichIdle /\ MatchingIdle /\ BatchIdle
    /\ rst = [pc |-> Unused] /\ nine = [pc |-> Unused]
    /\ \E earlier \in {<<>>, <<[company |-> 0, status |-> "finished"]>>} :
          agent = [pc |-> "launch", company |-> 1, runs |-> earlier,
                   shown |-> Len(earlier), container_id |-> 0, polls |-> 0,
                   wait |-> None, employees |-> <<>>]

\* launch_agent answers 200 with a containerId
LaunchAgent ==
    /\ agent.pc = "launch"
    /\ agent.company <= MaxLaunches
    /\ agent' = [agent EXCEPT
                   !.runs = Append(@, [company |-> agent.company, status |-> "starting"]),
                   !.container_id = Len(agent.runs) + 1,
                   !.polls = 0, !.wait = None, !.pc = "wait"]
    /\ AgentFrame

\* launch_agent returns None: extract_employees_from_linkedin returns []
LaunchRefused ==
    /\ agent.pc = "launch"
    /\ agent.company <= MaxLaunches
    /\ agent' = [agent EXCEPT !.employees = Append(@, 0),
                              !.company = @ + 1]
    /\ AgentFrame

\* the provider starts serving the newest container of the agent
ProviderShows ==
    /\ agent.pc # Unused
    /\ agent.shown < Len(agent.runs)
    /\ agent' = [agent EXCEPT !.shown = Len(agent.runs)]
    /\ AgentFrame

\* the provider moves a container on
ProviderRuns(r, status) ==
    /\ agent.pc # Unused
    /\ r \in 1..Len(agent.runs)
    /\ \/ agent.runs[r].status = "starting" /\ status \in {"running", "launch error"}
       \/ agent.runs[r].status = "running" /\ status = "finished"
    /\ agent' = [agent EXCEPT !.runs[r].status = status]
    /\ AgentFrame

\* one turn of the loop of wait_for_completion(container_id)
PollAgent ==
    /\ agent.pc = "wait"
    /\ agent.polls < MaxPolls
    /\ agent' = CASE AgentStatus(agent) = "finished" ->
                       [agent EXCEPT !.wait = "True", !.pc = "output"]
                  [] AgentStatus(agent) \in {"launch error", "never launched"} ->
                       [agent EXCEPT !.wait = "False", !.pc = "output"]
                  [] OTHER -> [agent EXCEPT !.polls = @ + 1]
    /\ AgentFrame

\* the loop of wait_for_completion runs out of time
WaitTimeout ==
    /\ agent.pc = "wait"
    /\ agent.polls = MaxPolls
    /\ agent' = [agent EXCEPT !.wait = "False", !.pc = "output"]
    /\ AgentFrame

\* get_output(): what fetch-output holds for the agent, whatever wait_for_completion
\* returned (0: no employees, c: those of the run for company c); then the next
\* company of extract_employees_batch
GetOutput ==
    /\ agent.pc = "output"
    /\ agent' = [agent EXCEPT
                   !.employees =
                       Append(@, IF AgentStatus(agent) = "finished"
                                 THEN agent.runs[agent.shown].company ELSE 0),
                   !.company = @ + 1, !.pc = "launch"]
    /\ AgentFrame

AgentNext ==
    \/ LaunchAgent
    \/ LaunchRefused
    \/ ProviderShows
    \/ \E r \in 1..MaxLaunches + 1, status \in {"running", "finished", "launch error"} :
          ProviderRuns(r, status)
    \/ PollAgent
    \/ WaitTimeout
    \/ GetOutput

AgentRuns == AgentInit /\ [][AgentNext]_vars

\* ------------------------------------------------------------------ properties
\* the status edge a transition takes on step k
StatusEdge(k) == <<steps[k].status, steps'[k].status>>
StatusChanges(k) == steps'[k].status # steps[k].status
\* the transition is reset_pipeline_state
IsReset == pc' = "reset"

DocumentedEdges ==
    {<<PENDING, RUNNING>>, <<RUNNING, COMPLETED>>, <<RUNNING, FAILED>>, <<PENDING, SKIPPED>>}

\* C1 as the specification states it: between two resets a step's status changes
\* only along PENDING->RUNNING, RUNNING->COMPLETED, RUNNING->FAILED, PENDING->SKIPPED.
C1_OnlyDocumentedEdges ==
    [][~IsReset => \A k \in Steps : StatusChanges(k) => StatusEdge(k) \in DocumentedEdges]_vars

ImplementedEdges ==
    DocumentedEdges
    \cup {<<PENDING, COMPLETED>>, <<PENDING, FAILED>>, <<FAILED, COMPLETED>>}
    \cup {<<t, RUNNING>> : t \in Terminal}
    \cup {<<COMPLETED, FAILED>>, <<SKIPPED, FAILED>>}

\* C1, amended: between two resets a step's status changes only along the four
\* documented edges or along PENDING->COMPLETED (use_pappers_leaders, CSV load),
\* PENDING->FAILED (stop flag found at the step's entry), terminal->RUNNING (the step
\* is run again), COMPLETED->FAILED and SKIPPED->FAILED (run again with the stop flag
\* still set), FAILED->COMPLETED (CSV load); so no status returns to PENDING, RUNNING
\* is left only for COMPLETED or FAILED, and SKIPPED is entered only from PENDING.
C1_OnlyImplementedEdges ==
    [][~IsReset => \A k \in Steps : StatusChanges(k) => StatusEdge(k) \in ImplementedEdges]_vars

\* C1 witness: step 4 went PENDING->SKIPPED and step 5 PENDING->COMPLETED without
\* ever running, after step 3 went through RUNNING to COMPLETED
C1_Witness ==
    /\ steps[4].status = SKIPPED
    /\ steps[5].status = COMPLETED /\ steps[5].started_at = None
    /\ steps[3].status = COMPLETED /\ steps[3].started_at = TS

\* C2 as the specification states it: once a step's status is terminal, nothing but
\* a reset changes it.
C2_TerminalIsFinal ==
    [][~IsReset => \A k \in Steps : steps[k].status \in Terminal => ~StatusChanges(k)]_vars

\* C2, amended: a terminal status is changed only by a reset, by run_single_step on
\* that very step (to RUNNING, or to FAILED when the stop flag is still set) and by
\* load_companies_from_csv (steps 1 to 3, to COMPLETED); no step of run_full_pipeline
\* and no stop request changes it.
C2_TerminalChangedOnlyByRerunOrLoad ==
    [][\A k \in Steps :
          (steps[k].status \in Terminal /\ StatusChanges(k)) =>
              \/ IsReset
              \/ mode' = "single" /\ cur' = k /\ steps'[k].status \in {RUNNING, FAILED}
              \/ mode' = "csv" /\ k \in 1..3 /\ steps'[k].status = COMPLETED]_vars

\* C2 witness: run_single_step has put a step that had completed back to RUNNING
C2_Witness ==
    /\ mode = "single" /\ pc = "running"
    /\ steps[cur].status = RUNNING /\ steps[cur].completed_at = TS

\* C3 as the specification states it: a step's error_message is non-null exactly
\* when its status is FAILED.
C3_ErrorIffFailed ==
    \A k \in Steps : (steps[k].error_message # None) <=> (steps[k].status = FAILED)

\* C4: within run_full_pipeline, when stage 1 or 2 returns an empty result or
\* raises, the run returns False at once, every later stage's record is still the
\* initial PENDING record (none has become RUNNING), and the records of the earlier
\* stages are left exactly as they were.
C4_EarlyFailureHalts ==
    /\ []((mode = "full" /\ cur \in {1, 2} /\ outcome \in {"empty", "raised"}) =>
              /\ pc = "idle" /\ ret = "False" /\ ~is_running
              /\ \A j \in Steps : j > cur => steps[j] = InitialStep)
    /\ [][(mode = "full" /\ pc = "running" /\ cur \in {1, 2}
              /\ outcome' \in {"empty", "raised"}) =>
              /\ pc' = "idle" /\ ret' = "False"
              /\ \A j \in Steps : j < cur => steps'[j] = steps[j]]_vars

\* C4 witness: stage 2 raised after stage 1 completed; the run returned False
C4_Witness ==
    /\ mode = "full" /\ pc = "idle" /\ cur = 2 /\ outcome = "raised" /\ ret = "False"
    /\ steps[1].status = COMPLETED /\ steps[2].status = FAILED
    /\ steps[3].status = PENDING

\* C5 as the specification states it: when stage 1 returns no entity, its record is
\* FAILED (or holds a status of its own for empty results) and stages 2..7 are PENDING.
C5_EmptyStage1IsFailed ==
    (mode = "full" /\ cur = 1 /\ outcome = "empty") =>
        /\ steps[1].status \notin {PENDING, RUNNING, COMPLETED, SKIPPED}
        /\ \A j \in 2..7 : steps[j].status = PENDING

\* C5, amended: when stage 1 returns no entity, run_full_pipeline returns False with
\* stage 1's record COMPLETED, result_count 0 and no error message, and stages 2..7
\* still PENDING.
C5_EmptyStage1IsCompleted ==
    (mode = "full" /\ cur = 1 /\ outcome = "empty") =>
        /\ pc = "idle" /\ ret = "False"
        /\ steps[1].status = COMPLETED
        /\ steps[1].result_count = 0
        /\ steps[1].error_message = None
        /\ \A j \in 2..7 : steps[j].status = PENDING

\* C5 witness: a full run whose stage 1 returned the empty list has ended
C5_Witness ==
    /\ mode = "full" /\ cur = 1 /\ outcome = "empty" /\ pc = "idle"
    /\ companies = <<>> /\ steps[1].completed_at = TS

\* C6 as the specification states it: when sink stage 3 or 7 raises, the failure is
\* recorded on its record and the run does not end with False because of it.
C6_SinkFailureIsSoft ==
    (mode = "full" /\ cur \in {3, 7} /\ outcome = "raised") =>
        /\ steps[cur].status = FAILED
        /\ ~(pc = "idle" /\ ret = "False")

\* the stage a full run was about to run when a stop check returned True: the stage
\* at whose entry run_step_with_capture read the flag, else the one after the stage
\* that run_full_pipeline's check follows
UpcomingStep == IF outcome = None THEN cur ELSE NextStep(cur)

\* C7 as the specification states it: once the stop flag has been observed, no
\* further stage starts and the record of the stage that was about to run is FAILED
\* with the reason "Arrete par l'utilisateur".
C7_StoppedStageMarkedFailed ==
    (mode = "full" /\ stop_observed) =>
        /\ pc \in {"idle", "boundary"}
        /\ steps[UpcomingStep].status = FAILED
        /\ steps[UpcomingStep].error_message = UserStopMsg

\* C7, amended: once the stop flag has been observed, no further stage function is
\* called and no record changes any more; the stage that was about to run is FAILED
\* with the reason "Arrete par l'utilisateur" when the flag was read at its entry by
\* run_step_with_capture, and keeps its initial PENDING record when the flag was read
\* by run_full_pipeline's check after the previous stage.
C7_StopObservedHalts ==
    /\ []((mode = "full" /\ stop_observed) =>
              /\ pc \in {"idle", "boundary"}
              /\ \A k \in Steps : steps[k].status # RUNNING
              /\ IF outcome = None
                 THEN /\ steps[cur].status = FAILED
                      /\ steps[cur].error_message = UserStopMsg
                 ELSE steps[NextStep(cur)] = InitialStep)
    /\ [][(mode = "full" /\ stop_observed /\ ~IsReset) => steps' = steps]_vars

\* C7 witness: the flag was read at the entry of stage 2, after stage 1 completed
C7_Witness ==
    /\ mode = "full" /\ stop_observed /\ pc = "idle" /\ cur = 2 /\ outcome = None
    /\ steps[1].status = COMPLETED
    /\ steps[2].status = FAILED /\ steps[2].error_message = UserStopMsg

\* the last stage of the run that ended with an outcome of its own, in a state where
\* the run has ended: the stage before the one that was stopped at its entry, else
\* the stage the run ended at
LastEnded == IF outcome = None THEN cur - 1 ELSE cur

RECURSIVE SumDirigeants(_, _)
SumDirigeants(cs, i) ==
    IF i > Len(cs) THEN 0 ELSE cs[i].dirigeants + SumDirigeants(cs, i + 1)

\* C9: with the skip flag set and stages 1-3 done, use_pappers_leaders leaves exactly
\* one decision maker per leadership record of each company, stage 4 SKIPPED and
\* stage 5 COMPLETED with result_count the total number of leadership records.
C9_OneDecisionMakerPerDirigeant ==
    (mode = "full" /\ skip_phantombuster /\ pc = "begin" /\ cur = 6) =>
        /\ \A j \in 1..3 : steps[j].status = COMPLETED
        /\ Len(decision_makers) = SumDirigeants(companies, 1)
        /\ \A i \in 1..Len(companies) : \A j \in 1..companies[i].dirigeants :
              Cardinality({n \in 1..Len(decision_makers) :
                              decision_makers[n].siren = i /\ decision_makers[n].idx = j}) = 1
        /\ steps[4].status = SKIPPED
        /\ steps[5].status = COMPLETED
        /\ steps[5].result_count = SumDirigeants(companies, 1)

\* C9 witness: three companies with two leadership records each gave six decision makers
C9_Witness ==
    /\ mode = "full" /\ skip_phantombuster /\ pc = "begin" /\ cur = 6
    /\ Len(companies) = 3 /\ \A i \in 1..3 : companies[i].dirigeants = 2
    /\ Len(decision_makers) = 6 /\ steps[5].result_count = 6

\* C10: the stages of a full run are strictly sequential: at most one record is
\* RUNNING, it is the record of the stage the run is at, and while a stage runs every
\* stage before it is terminal and every stage after it is still PENDING.
C10_Sequential ==
    /\ Cardinality({k \in Steps : steps[k].status = RUNNING}) <= 1
    /\ \A k \in Steps : steps[k].status = RUNNING => (pc = "running" /\ cur = k)
    /\ (mode = "full" /\ pc = "running") =>
           /\ steps[cur].status = RUNNING
           /\ \A j \in Steps : j < cur => steps[j].status \in Terminal
           /\ \A j \in Steps : j > cur => steps[j].status = PENDING

\* C10 witness: stage 6 runs after stage 4 was skipped and the others completed
C10_Witness ==
    /\ mode = "full" /\ pc = "running" /\ cur = 6 /\ steps[6].status = RUNNING
    /\ steps[4].status = SKIPPED /\ steps[5].status = COMPLETED
    /\ \A j \in 1..3 : steps[j].status = COMPLETED

\* the timestamps recorded in the window of length period that ends at w
InWindow(w) == {i \in 1..Len(recorded) : w - period < recorded[i] /\ recorded[i] <= w}

\* C11 as the specification states it: with a single caller, every window of length
\* period holds at most max_calls recorded timestamps.
C11_WindowBound ==
    \A w \in 0..MaxClock : Cardinality(InWindow(w)) <= max_calls

\* C12 as the specification states it: with concurrent callers the sequence of
\* wait_if_needed is mutually exclusive, the window bound holds, no call fails and no
\* timestamp still inside the window is missing from the deque.
C12_SharedLimiterSafe ==
    /\ Cardinality({t \in DOMAIN caller : caller[t].pc # "idle"}) <= 1
    /\ \A w \in 0..MaxClock : Cardinality(InWindow(w)) <= max_calls
    /\ \A t \in DOMAIN caller : caller[t].pc # "IndexError"
    /\ \A i \in 1..Len(recorded) :
          recorded[i] >= clock - period =>
              Cardinality({j \in 1..Len(recorded) : recorded[j] = recorded[i]})
                  <= Cardinality({j \in 1..Len(calls) : calls[j] = recorded[i]})

\* a status check that failed: the request raised or the HTTP status was an error
FailedChecks == {"transport_error", "http_error"}

\* C13 as the specification states it: in both poll loops a status check that failed
\* counts as still in progress; the loop goes on until a terminal status or the timeout.
C13_FailedCheckIsInProgress ==
    (job.pc # Unused /\ job.responses # <<>>
        /\ job.responses[Len(job.responses)] \in FailedChecks)
    => (job.returned = None \/ job.ended_by = "timeout")

AllInProgress == \A i \in 1..Len(job.responses) : job.responses[i] = "in_progress"

\* C14: while the provider has answered in-progress k times and k poll intervals are
\* shorter than the timeout, the loop is still running; the query answered with
\* success makes it return True at once; once it has returned no status query follows.
C14_SuccessAfterKPolls ==
    /\ [](job.pc # Unused =>
            /\ (AllInProgress /\ Len(job.responses) * job.poll_interval < job.timeout)
                  => job.returned = None
            /\ (job.responses # <<>> /\ job.responses[Len(job.responses)] = "success")
                  => (job.returned = "True" /\ job.ended_by = "success"))
    /\ [][job.pc # Unused /\ job.returned # None => job'.responses = job.responses]_vars

C14_Witness ==
    /\ job.responses = <<"in_progress", "success">>
    /\ job.returned = "True"
    /\ job.pc = "fetched"

\* C15: when the provider only ever answers in-progress, the loop returns by timeout
\* only, at an elapsed time of at least timeout and less than timeout + poll_interval,
\* and it does return.
C15_TimeoutWithinOneInterval ==
    /\ [](job.pc # Unused /\ AllInProgress /\ job.returned # None =>
            /\ job.ended_by = "timeout"
            /\ job.timeout <= job.elapsed
            /\ job.elapsed < job.timeout + job.poll_interval)
    /\ <>(job.pc # Unused /\ (job.returned # None \/ job.pc = "abandoned"))

C15_Witness ==
    /\ job.ended_by = "timeout"
    /\ job.responses = <<"in_progress", "in_progress">>
    /\ job.timeout = 3 /\ job.poll_interval = 2 /\ job.elapsed = 4

\* C19 as the specification states it: the results of a provider job are fetched only
\* after the poll loop returned success; after a failure or a timeout nothing is fetched.
C19_FetchOnlyAfterSuccess ==
    (job.pc # Unused /\ job.fetches > 0) => job.returned = "True"

\* the composite key of the claim: each identity field lowercased, then joined
FieldsKey(first, last, company) ==
    Lower(first) \o <<"_">> \o Lower(last) \o <<"_">> \o Lower(company)

InputKey(i) ==
    LET c == ContactData(mat.decision_makers[i], i)
    IN  FieldsKey(c.first_name, c.last_name, c.company)

ResultKey(j) ==
    FieldsKey(mat.results[j].first_name, mat.results[j].last_name, mat.results[j].company)

\* results j that match submitted input i
Matches(i) ==
    {j \in 1..Len(mat.results) : i \in Submitted(mat.decision_makers) /\ ResultKey(j) = InputKey(i)}

\* C17: after the mapping of a successful bulk job, an input is changed only if it was
\* submitted and some result has its key; an input without a matching result is as it
\* was; if no result matches any submitted input, no record is changed.
C17_UpdateOnlyOnKeyMatch ==
    mat.pc = "mapped" =>
        /\ Len(mat.mapped) = Len(mat.decision_makers)
        /\ \A i \in 1..Len(mat.decision_makers) :
              /\ mat.mapped[i] # mat.decision_makers[i] => Matches(i) # {}
              /\ Matches(i) = {} => mat.mapped[i].email = None
        /\ (\A i \in 1..Len(mat.decision_makers) : Matches(i) = {})
              => mat.mapped = mat.decision_makers

\* two inputs, one result matching the second input only (by case-folded key), one
\* result matching nothing
C17_Witness ==
    /\ mat.pc = "mapped"
    /\ Len(mat.decision_makers) = 2 /\ Len(mat.results) = 2
    /\ Matches(1) = {} /\ Matches(2) = {1}
    /\ mat.mapped[2].email = "email" /\ mat.mapped[1].email = None
    /\ mat.results[1].first_name = <<"A">>

\* unitary calls made so far
UnitaryCalls == {i \in 1..Len(enr.unit_calls) : enr.unit_calls[i] > 0}

\* C16: the bulk job is attempted once and never again; unitary calls are made only
\* after the bulk attempt failed as a whole; the fallback, once over, has made exactly
\* one call for every submitted record and none for the others, each record carrying
\* the outcome of its own call; after a bulk success there is no unitary call.
C16_BulkOnceThenUnitaryFallback ==
    enr.pc \notin {Unused, "start"} =>
        /\ enr.bulk_calls <= 1
        /\ enr.pc \notin {"bulk", "returned"} => enr.bulk_calls = 1
        /\ (enr.pc = "returned" /\ Submitted(enr.decision_makers) # {}) => enr.bulk_calls = 1
        /\ UnitaryCalls # {} =>
              /\ ~enr.bulk_success
              /\ enr.bulk_failure \in {"no_job_id", "not_completed", "no_results", "exception"}
        /\ enr.bulk_success => (UnitaryCalls = {} /\ enr.pc = "returned")
        /\ \A i \in 1..Len(enr.unit_calls) : enr.unit_calls[i] <= 1
        /\ (enr.pc = "returned" /\ ~enr.bulk_success) =>
              /\ UnitaryCalls = Submitted(enr.decision_makers)
              /\ \A i \in UnitaryCalls :
                    enr.decision_makers[i].email = "email" <=> enr.outcomes[i] = "found"

\* a bulk attempt without job id, then two unitary calls: one raises, one finds
C16_Witness ==
    /\ enr.pc = "returned"
    /\ enr.bulk_failure = "no_job_id"
    /\ enr.bulk_calls = 1
    /\ enr.unit_calls = <<1, 1>>
    /\ enr.outcomes = <<"raises", "found">>
    /\ enr.decision_makers[1].email = None
    /\ enr.decision_makers[2].email = "email"

\* C18 as the specification states it: when the extraction raises for an entity, the
\* batch does not raise, and what it returns holds every other entity with a LinkedIn
\* URL and not the failed one.
C18_BatchIsolatesFailure ==
    batch.pc \notin {Unused, "start"} =>
        /\ batch.pc # "raised"
        /\ batch.pc = "returned" =>
              {i \in 1..Len(batch.results) : batch.results[i] # "absent"}
                  = companies_with_linkedin \ batch.failed

\* C20 as the specification states it: when a stage ends with an exception, the call of
\* run_full_pipeline or run_single_step returns False, and the stage's record is FAILED
\* with an error message.
C20_StageExceptionMarksFailed ==
    (mode \in {"full", "single"} /\ pc = "idle" /\ outcome \in {"raised", "ValueError"}) =>
        /\ ret = "False"
        /\ ~is_running
        /\ steps[cur].status = FAILED
        /\ steps[cur].error_message # None

\* C21: right after reset_pipeline_state every step record 1..7 is PENDING with
\* result_count 0, no error message, no timestamps and no logs, the stop flag and the
\* running flag are cleared, and the entity lists and CSV paths are empty.
C21_ResetIsComplete ==
    pc = "reset" =>
        /\ DOMAIN steps = 1..7
        /\ \A k \in 1..7 :
              /\ steps[k].status = PENDING
              /\ steps[k].result_count = 0
              /\ steps[k].error_message = None
              /\ steps[k].started_at = None
              /\ steps[k].completed_at = None
              /\ steps[k].logs = <<>>
        /\ ~stop_requested /\ ~is_running
        /\ current_step = 0
        /\ pipeline_started_at = None /\ pipeline_completed_at = None
        /\ companies = <<>> /\ DOMAIN company_employees = {}
        /\ decision_makers = <<>> /\ enriched_contacts = <<>>
        /\ companies_csv_path = None /\ contacts_csv_path = None

\* a reset that follows a run made with the checkbox set: the prior state held the
\* records and the data of that run
C21_Witness ==
    pc = "reset" /\ skip_phantombuster /\ steps = create_initial_steps

\* C22 as the specification states it: whatever a reader finds between two assignments
\* of reset_pipeline_state is either the whole state of before the reset or the whole
\* reset state, never a mixture.
C22_ResetIsAtomic ==
    rst.pc # Unused => rst.seen \in {rst.before, ResetSnapshot}

\* C23 as the specification states it: PENDING->RUNNING sets started_at and clears
\* error_message, RUNNING->FAILED sets error_message to the exception's text and sets
\* completed_at, and a record that is FAILED always has completed_at set.
C23_FailedHasCompletedAt ==
    /\ [][\A k \in Steps :
            /\ StatusEdge(k) = <<PENDING, RUNNING>> =>
                  (steps'[k].started_at # None /\ steps'[k].error_message = None)
            /\ StatusEdge(k) = <<RUNNING, FAILED>> =>
                  (steps'[k].error_message = ExcText /\ steps'[k].completed_at # None)]_vars
    /\ [](\A k \in Steps : steps[k].status = FAILED => steps[k].completed_at # None)

\* C24 as the specification states it: a step that has just gone RUNNING->COMPLETED
\* with an empty output has result_count 0.
C24_EmptyOutputCountsZero ==
    [][\A k \in Steps :
          (StatusEdge(k) = <<RUNNING, COMPLETED>> /\ outcome' = "empty")
              => steps'[k].result_count = 0]_vars

\* C27 as the specification states it: when run_full_pipeline has returned True, every
\* step 1..7 is COMPLETED or SKIPPED and pipeline_completed_at is set.
C27_TrueMeansAllDone ==
    (mode = "full" /\ pc = "idle" /\ ret = "True") =>
        /\ \A k \in Steps : steps[k].status \in {COMPLETED, SKIPPED}
        /\ pipeline_completed_at # None

\* C28: a step taken while execute_step_k is about to start with its upstream data
\* empty changes no step record, neither current_step nor any entity list or path, and
\* never enters the stage function; when the call moves on, it has returned False.
C28_MissingUpstreamWritesNothing ==
    [][(pc = "begin" /\ ~Upstream(cur)) =>
          /\ steps' = steps
          /\ current_step' = current_step
          /\ data' = data
          /\ pc' # "running"
          /\ pc' # pc => (pc' = "idle" /\ ret' = "False" /\ ~is_running')]_vars

\* run_single_step(5) with no employees in the session, over a step already FAILED
C28_Witness ==
    /\ mode = "single" /\ cur = 5 /\ pc = "idle" /\ outcome = "ValueError"
    /\ ret = "False"
    /\ steps[4].status = FAILED

\* the sink stages of run_pipeline_with_logs
NineSinks == {3, 7, 8, 9}

\* C25: in run_pipeline_with_logs a sink stage that raised is FAILED (3, 7) or SKIPPED
\* (8, 9), an unconfigured stage 8 or 9 is SKIPPED, no sink stage ends the run, and a
\* run that nothing else ended has given every stage a terminal status and returned True.
C25_SinkFailureDoesNotHalt ==
    nine.pc \notin {Unused, "start"} =>
        /\ \A k \in {3, 7} \cap nine.raised : nine.steps[k].status = FAILED
        /\ \A k \in {8, 9} \cap nine.raised : nine.steps[k].status = SKIPPED
        /\ (nine.writes[8] # <<>> /\ ~nine.GOOGLE_SHEETS) => nine.steps[8].status = SKIPPED
        /\ (nine.writes[9] # <<>> /\ ~nine.EMELIA) => nine.steps[9].status = SKIPPED
        /\ nine.halt \notin NineSinks
        /\ nine.raised \cap {1, 2, 4, 5, 6} # {} => nine.halt # 0
        /\ (nine.pc = "returned" /\ nine.halt = 0) =>
              /\ nine.ret = "True"
              /\ \A k \in NineSteps : nine.steps[k].status \in Terminal

\* stages 3, 7, 8 raise, stage 9 is not configured, and the run returns True
C25_Witness ==
    /\ nine.pc = "returned"
    /\ nine.ret = "True"
    /\ nine.raised = {3, 7, 8}
    /\ ~nine.EMELIA
    /\ nine.steps[3].status = FAILED /\ nine.steps[7].status = FAILED
    /\ nine.steps[8].status = SKIPPED /\ nine.steps[9].status = SKIPPED
    /\ nine.steps[6].status = COMPLETED

\* the terminal statuses written to step k during the run
TerminalWrites(k) == {i \in 1..Len(nine.writes[k]) : nine.writes[k][i] \in Terminal}

\* C26 as the specification states it: within one run of run_pipeline_with_logs no step
\* record is given a terminal status more than once.
C26_TerminalWrittenOnce ==
    nine.pc # Unused => \A k \in NineSteps : Cardinality(TerminalWrites(k)) <= 1

\* the key the code computes for submitted input i
CodeKey(i) == ContactKey(ContactData(mat.decision_makers[i], i))

\* submitted inputs that share the key of input i
SameKey(i) ==
    {j \in Submitted(mat.decision_makers) :
        i \in Submitted(mat.decision_makers) /\ CodeKey(j) = CodeKey(i)}

\* results that carry the key of input i
ResultsFor(i) ==
    {r \in 1..Len(mat.results) :
        CompositeKey(mat.results[r].first_name, mat.results[r].last_name,
                     mat.results[r].company) = CodeKey(i)}

\* C29: when submitted inputs share a key, a bulk result with that key is written to
\* the last of them in the input list and to no other: every earlier one is as it was,
\* without email, although a result with its key was returned.
C29_DuplicateKeyLastWins ==
    mat.pc = "mapped" =>
        \A i \in Submitted(mat.decision_makers) :
            (Cardinality(SameKey(i)) >= 2 /\ ResultsFor(i) # {}) =>
                IF \A j \in SameKey(i) : j <= i
                THEN mat.mapped[i].email = "email"
                ELSE /\ mat.mapped[i] = mat.decision_makers[i]
                     /\ mat.mapped[i].email = None

\* two inputs whose keys agree after lowercasing, one result with that key
C29_Witness ==
    /\ mat.pc = "mapped"
    /\ Len(mat.decision_makers) = 2 /\ Len(mat.results) = 1
    /\ SameKey(1) = {1, 2}
    /\ mat.decision_makers[1].firstName = <<>> /\ mat.decision_makers[2].firstName # <<>>
    /\ ResultsFor(1) = {1}
    /\ mat.mapped[2].email = "email" /\ mat.mapped[1].email = None

\* C30 as the specification states it: wait_for_completion returns True only when the
\* container it was given has finished, and the employees stored for a company come
\* from the run launched for that company.
C30_TrueMeansOwnRunFinished ==
    agent.pc # Unused =>
        /\ (agent.pc = "output" /\ agent.wait = "True") =>
              agent.runs[agent.container_id].status = "finished"
        /\ \A c \in 1..Len(agent.employees) :
              agent.employees[c] \in {0, c}

====
